---- MODULE Spec2Model ----
(***************************************************************************)
(* Model of personalized_ad_service.py: the two FastAPI handlers           *)
(* send_ad_email (POST /send-ad-email) and ad_landing_page (GET /ad), the  *)
(* helpers they call (send_email_via_smtp, log_email_interaction,          *)
(* generate_audio, generate_landing_page_html) and the external            *)
(* collaborators they talk to: the Supabase tables "bookings" and          *)
(* "email_interactions", the SMTP server and the Gemini TTS endpoint.      *)
(*                                                                         *)
(* A request is one invocation of a handler.  It advances one collaborator *)
(* call at a time (the suspension points of the handler), so requests of   *)
(* different workers interleave between calls.  What a collaborator        *)
(* answers is an input: every action draws it from the answers the         *)
(* collaborator can give (data, no data, an exception).  Every request     *)
(* keeps the list of collaborator calls it made (calls), the time.sleep    *)
(* durations it waited (sleeps) and the HTTP response it produced.         *)
(***************************************************************************)
EXTENDS Integers, Sequences, FiniteSets, Bags, TLC

VARIABLES
    env,                 \* the SMTP environment read at import time
    action_status,       \* bookings.action_status, per request_id
    email_interactions,  \* rows of the email_interactions table (a bag)
    outbox,              \* messages the SMTP server accepted (a bag)
    req                  \* the requests: handler, argument, position, result

vars == <<env, action_status, email_interactions, outbox, req>>

\* ------------------------------------------------------------------ bounds

\* Number of requests (handler invocations) in one behaviour.
NumRequests == 2

Requests == 1..NumRequests

\* --------------------------------------------------------------- constants

SUPABASE_TABLE_NAME == "bookings"

EMAIL_INTERACTIONS_TABLE_NAME == "email_interactions"

\* A status literal with a slip in it.
AD_SENT_STATUS_slip == "Personalised Ad Sent"

\* The literals of send_ad_email's step 6.
AD_SENT_STATUS == "Personalized Ad Sent"

AD_EMAIL_SENT_EVENT == "personalized_ad_email_sent"

AOE_VEHICLE_IMAGES ==
    [v \in {"AOE Apex", "AOE Thunder", "AOE Volt"} |->
        CASE v = "AOE Apex" ->
               << "https://storage.googleapis.com/aoe-motors-images/AOE%20Apex.jpg",
                  "https://storage.googleapis.com/aoe-motors-images/AOE%20Apex_back.png",
                  "https://storage.googleapis.com/aoe-motors-images/AOE%20Apex_Interior.png" >>
          [] v = "AOE Thunder" ->
               << "https://storage.googleapis.com/aoe-motors-images/AOE%20Thunder.jpg",
                  "https://storage.googleapis.com/aoe-motors-images/AOE%20Thunder_Back.png",
                  "https://storage.googleapis.com/aoe-motors-images/AOE%20Thunder_Interior.png" >>
          [] v = "AOE Volt" ->
               << "https://storage.googleapis.com/aoe-motors-images/AOE%20Volt.jpg",
                  "https://storage.googleapis.com/aoe-motors-images/AOE%20Volt_Back.png",
                  "https://storage.googleapis.com/aoe-motors-images/AOE%20Volt_Interior.png" >>]

AOE_VEHICLE_DATA ==
    [v \in {"AOE Apex", "AOE Volt", "AOE Thunder"} |->
        CASE v = "AOE Apex" ->
               [type |-> "Luxury Sedan",
                features |-> << "Premium leather interior",
                                "Advanced driver-assistance systems (ADAS)",
                                "Panoramic sunroof" >>]
          [] v = "AOE Volt" ->
               [type |-> "Electric Compact",
                features |-> << "Long-range battery (500 miles)",
                                "Fast charging (80% in 20 min)",
                                "Regenerative braking" >>]
          [] v = "AOE Thunder" ->
               [type |-> "Performance SUV",
                features |-> << "V8 Twin-Turbo Engine",
                                "Adjustable air suspension",
                                "High-performance braking system" >>]]

AD_MESSAGES ==
    [t \in {"Luxury Sedan", "Electric Compact", "Performance SUV"} |->
        CASE t = "Luxury Sedan" ->
               "Experience sophistication. Discover the new level of luxury."
          [] t = "Electric Compact" ->
               "Drive the future. Electrify your journey with groundbreaking technology."
          [] t = "Performance SUV" ->
               "Unleash power. Command the road with unparalleled performance."]

\* dict.get(key, default)
Get(d, k, default) == IF k \in DOMAIN d THEN d[k] ELSE default

\* ------------------------------------------------------- the record store

\* The rows of the bookings table.  The handlers never create or delete a
\* row; they read email, full_name and vehicle and write action_status.
Bookings ==
    [id \in {"R1", "R2"} |->
        IF id = "R1"
        THEN [email |-> "jane@example.com", full_name |-> "Jane Doe",
              vehicle |-> "AOE Volt"]
        ELSE [email |-> "john@example.com", full_name |-> "John Roe",
              vehicle |-> "AOE Zephyr"]]

LeadIds == DOMAIN Bookings

\* action_status of each row before the first request: R1 has not been
\* sent an ad, R2 was sent one by an earlier run of the service.
InitialStatus ==
    [id \in LeadIds |-> IF id = "R1" THEN "New Lead" ELSE "Personalized Ad Sent"]

\* The identifiers a caller passes to POST /send-ad-email: the two leads and
\* an unknown one.
SendRequestIds == LeadIds \cup {"R404"}

\* The identifiers a caller passes to GET /ad: a lead, an unknown one and
\* the empty one.
AdRequestIds == {"R1", "R404", ""}

\* What select(...).eq('request_id', id).single().execute() can answer: the
\* row, a response without data, or an exception of the client library.
SelectResults(id) ==
    IF id \in LeadIds THEN {"data", "raise"} ELSE {"none", "raise"}

\* What update(...).execute() and insert(...).execute() can answer.
WriteResults == {"ok", "raise"}

\* str(e) of the exception a failing store call raises.
STORE_ERROR == "APIError: record store unavailable"

\* ------------------------------------------------------ SMTP configuration

\* os.getenv gives None for an unset variable; "" stands for it here (both
\* are falsy), and EMAIL_PORT is 0 when EMAIL_PORT is unset.
SmtpEnvs ==
    { [EMAIL_HOST |-> "smtp.example.com", EMAIL_PORT |-> p,
       EMAIL_ADDRESS |-> "ads@aoe.example", EMAIL_PASSWORD |-> "secret"]
        : p \in {465, 587, 25} }
    \cup
    { [EMAIL_HOST |-> "smtp.example.com", EMAIL_PORT |-> 465,
       EMAIL_ADDRESS |-> "ads@aoe.example", EMAIL_PASSWORD |-> ""] }

\* A configuration is complete as soon as one variable is set.
ENABLE_SMTP_SENDING_any(e) ==
    \/ e.EMAIL_HOST # ""
    \/ e.EMAIL_PORT # 0
    \/ e.EMAIL_ADDRESS # ""
    \/ e.EMAIL_PASSWORD # ""

ENABLE_SMTP_SENDING(e) ==
    /\ e.EMAIL_HOST # ""
    /\ e.EMAIL_PORT # 0
    /\ e.EMAIL_ADDRESS # ""
    /\ e.EMAIL_PASSWORD # ""

\* How the SMTP server behaves during one send: it completes the dialogue
\* or one of the library calls raises.
SmtpBehaviours ==
    {"ok", "connect_error", "starttls_error", "login_error", "send_error", "quit_error"}

\* One collaborator call, as a request records it.
Call(op, arg, result) == [op |-> op, arg |-> arg, result |-> result]

\* The smtplib calls of the body of "with server:" and of its exit, after
\* the connection is open: login, send_message, then the QUIT that
\* SMTP.__exit__ sends, also on the way out of an exception of the body.
\* A QUIT that the server answers with an error raises after the server
\* accepted the message.  sent is what
\* send_email_via_smtp returns, accepted whether the server took the message.
SmtpDialogue(e, recipient_email, server, opened) ==
    IF server = "login_error"
    THEN [sent |-> FALSE, accepted |-> FALSE,
          calls |-> opened \o << Call("login", e.EMAIL_ADDRESS, "raise"),
                                 Call("quit", e.EMAIL_HOST, "ok") >>]
    ELSE IF server = "send_error"
    THEN [sent |-> FALSE, accepted |-> FALSE,
          calls |-> opened \o << Call("login", e.EMAIL_ADDRESS, "ok"),
                                 Call("send_message", recipient_email, "raise"),
                                 Call("quit", e.EMAIL_HOST, "ok") >>]
    ELSE IF server = "quit_error"
    THEN [sent |-> FALSE, accepted |-> TRUE,
          calls |-> opened \o << Call("login", e.EMAIL_ADDRESS, "ok"),
                                 Call("send_message", recipient_email, "ok"),
                                 Call("quit", e.EMAIL_HOST, "raise") >>]
    ELSE [sent |-> TRUE, accepted |-> TRUE,
          calls |-> opened \o << Call("login", e.EMAIL_ADDRESS, "ok"),
                                 Call("send_message", recipient_email, "ok"),
                                 Call("quit", e.EMAIL_HOST, "ok") >>]

\* send_email_via_smtp: the result (True / False) and the smtplib calls made.
send_email_via_smtp(e, recipient_email, server) ==
    IF ~ENABLE_SMTP_SENDING(e)
    THEN [sent |-> FALSE, accepted |-> FALSE, calls |-> << >>]
    ELSE IF e.EMAIL_PORT = 465
    THEN IF server = "connect_error"
         THEN [sent |-> FALSE, accepted |-> FALSE,
               calls |-> << Call("SMTP_SSL", e.EMAIL_HOST, "raise") >>]
         ELSE SmtpDialogue(e, recipient_email, server,
                           << Call("SMTP_SSL", e.EMAIL_HOST, "ok") >>)
    ELSE IF e.EMAIL_PORT = 587
    THEN IF server = "connect_error"
         THEN [sent |-> FALSE, accepted |-> FALSE,
               calls |-> << Call("SMTP", e.EMAIL_HOST, "raise") >>]
         ELSE IF server = "starttls_error"
         THEN [sent |-> FALSE, accepted |-> FALSE,
               calls |-> << Call("SMTP", e.EMAIL_HOST, "ok"),
                            Call("starttls", e.EMAIL_HOST, "raise") >>]
         ELSE SmtpDialogue(e, recipient_email, server,
                           << Call("SMTP", e.EMAIL_HOST, "ok"),
                              Call("starttls", e.EMAIL_HOST, "ok") >>)
    ELSE [sent |-> FALSE, accepted |-> FALSE, calls |-> << >>]

\* ---------------------------------------------------------------- requests

NoDoc == [hello |-> "", images |-> << >>, features |-> << >>, audio_src |-> ""]

\* An HTTP response: status code, the detail / message / error markup, and
\* for a rendered landing page the parts of the document.
Response(code, detail, doc) == [code |-> code, detail |-> detail, doc |-> doc]

NoResponse == Response(0, "", NoDoc)

\* The audio value before generate_audio has returned, and Python's None.
Pending == "<pending>"

None == "<None>"

IdleRequest ==
    [kind |-> "none", id |-> "", pc |-> "idle", i |-> 0, audio |-> Pending,
     calls |-> << >>, sleeps |-> << >>, response |-> NoResponse]

Init ==
    /\ env \in SmtpEnvs
    /\ action_status = InitialStatus
    /\ email_interactions = EmptyBag
    /\ outbox = EmptyBag
    /\ req = [r \in Requests |-> IdleRequest]

\* A request slot is taken only when the slots before it are taken.
CanStart(r) ==
    /\ req[r].pc = "idle"
    /\ \A q \in Requests : q < r => req[q].pc # "idle"

\* ----------------------------------------------------------- send_ad_email

\* str(e) of a fastapi HTTPException.
HTTPExceptionStr(code, detail) ==
    IF code = 404 THEN "404: " \o detail ELSE "500: " \o detail

\* The handler's "except Exception as e" clause: whatever was raised inside
\* the try block, an HTTPException included, leaves as a 500.
send_ad_email_except(e) == Response(500, "Internal server error: " \o e, NoDoc)

send_ad_email_success ==
    Response(200, "Personalized ad email sent successfully.", NoDoc)

SendAdEmailStart(r, id) ==
    /\ CanStart(r)
    /\ req' = [req EXCEPT ![r] = [@ EXCEPT !.kind = "send", !.id = id, !.pc = "select"]]
    /\ UNCHANGED <<env, action_status, email_interactions, outbox>>


\* Steps 2-4 of the handler: the message composed for a lead.
ad_page_url(request_id) ==
    "https://aoe-personalized-ad.onrender.com/ad?id=" \o request_id

email_image_url(vehicle) ==
    Get(AOE_VEHICLE_IMAGES, vehicle,
        << "https://placehold.co/600x338/1F2937/D1D5DB?text=AOE+Motors" >>)[1]

email_subject(vehicle) ==
    "A special message for you about the " \o vehicle \o "!"

AdEmail(request_id) ==
    [to |-> Bookings[request_id].email,
     subject |-> email_subject(Bookings[request_id].vehicle),
     image |-> email_image_url(Bookings[request_id].vehicle),
     link |-> ad_page_url(request_id)]

\* Step 1: the select, "if not response.data: raise HTTPException(404)",
\* and the except clause that the raise lands in.
send_ad_email_after_select(res) ==
    IF res = "raise"
    THEN [pc |-> "done", response |-> send_ad_email_except(STORE_ERROR)]
    ELSE IF res = "none"
    THEN [pc |-> "done",
          response |-> send_ad_email_except(HTTPExceptionStr(404, "Lead not found."))]
    ELSE [pc |-> "smtp", response |-> NoResponse]

SendAdEmailSelect(r) ==
    /\ req[r].kind = "send"
    /\ req[r].pc = "select"
    /\ \E res \in SelectResults(req[r].id) :
         LET nxt == send_ad_email_after_select(res) IN
         req' = [req EXCEPT ![r] =
                    [@ EXCEPT !.calls = Append(@, Call("select", req[r].id, res)),
                              !.pc = nxt.pc,
                              !.response = nxt.response]]
    /\ UNCHANGED <<env, action_status, email_interactions, outbox>>

\* A handler that goes on to step 6 whatever send_email_via_smtp returned.
send_ad_email_after_smtp_ignoring_result(email_sent) ==
    [pc |-> "update", response |-> NoResponse]

\* A handler that tries the transport again after a failure.
send_ad_email_after_smtp_retry(email_sent) ==
    IF email_sent
    THEN [pc |-> "update", response |-> NoResponse]
    ELSE [pc |-> "smtp", response |-> NoResponse]

\* Step 5: "if email_sent: ... else: raise HTTPException(500)".
send_ad_email_after_smtp(email_sent) ==
    IF email_sent
    THEN [pc |-> "update", response |-> NoResponse]
    ELSE [pc |-> "done",
          response |-> send_ad_email_except(
                           HTTPExceptionStr(500, "Failed to send personalized ad email."))]

\* The position in the call list of r of the invocation of
\* send_email_via_smtp that has not returned yet (0 when there is none).
SmtpInProgress(r) ==
    IF \E k \in DOMAIN req[r].calls :
           /\ req[r].calls[k].op = "send_email_via_smtp"
           /\ req[r].calls[k].result = Pending
    THEN CHOOSE k \in DOMAIN req[r].calls :
           /\ req[r].calls[k].op = "send_email_via_smtp"
           /\ req[r].calls[k].result = Pending
    ELSE 0

\* The smtplib calls the invocation in progress has made so far.
SmtpCallsMade(r) ==
    LET at == SmtpInProgress(r)
    IN IF at = 0 THEN << >>
       ELSE SubSeq(req[r].calls, at + 1, Len(req[r].calls))

\* What send_email_via_smtp does next after the smtplib calls in made: the
\* call it makes (none when sending is disabled or the port unsupported),
\* whether it returns after it, and what it returns.  The server's part is
\* any behaviour that agrees with the calls made so far.
SmtpSteps(e, recipient_email, made) ==
    LET k == Len(made)
    IN { [step    |-> IF k < Len(m.calls) THEN << m.calls[k + 1] >> ELSE << >>,
          returns |-> Len(m.calls) <= k + 1,
          sent    |-> m.sent] :
         m \in { x \in { send_email_via_smtp(e, recipient_email, server) :
                             server \in SmtpBehaviours } :
                     /\ k <= Len(x.calls)
                     /\ SubSeq(x.calls, 1, k) = made
                     /\ k > 0 => k < Len(x.calls) } }

\* Step 5, one smtplib call at a time: every call of send_email_via_smtp
\* is a round trip to the SMTP server, and other requests run between two
\* of them.  The first step enters send_email_via_smtp; the step that
\* makes its last call (or finds sending disabled or the port unsupported)
\* also returns from it and takes the branch of "if email_sent".  The
\* server has the message as soon as send_message has completed, before
\* the QUIT that decides what send_email_via_smtp returns.
SendAdEmailSmtp(r) ==
    /\ req[r].kind = "send"
    /\ req[r].pc = "smtp"
    /\ \E s \in SmtpSteps(env, Bookings[req[r].id].email, SmtpCallsMade(r)) :
         LET recipient == Bookings[req[r].id].email
             at      == SmtpInProgress(r)
             result  == IF ~s.returns THEN Pending
                        ELSE IF s.sent THEN "True" ELSE "False"
             entered == IF at = 0
                        THEN Append(req[r].calls,
                                    Call("send_email_via_smtp", recipient, result))
                        ELSE [req[r].calls EXCEPT ![at].result = result]
             nxt     == send_ad_email_after_smtp(s.sent)
         IN
         /\ req' = [req EXCEPT ![r] =
                      [@ EXCEPT !.calls = entered \o s.step,
                                !.pc = IF s.returns THEN nxt.pc ELSE "smtp",
                                !.response = IF s.returns THEN nxt.response
                                             ELSE NoResponse]]
         /\ outbox' = IF s.step = << Call("send_message", recipient, "ok") >>
                      THEN outbox (+) SetToBag({AdEmail(req[r].id)})
                      ELSE outbox
    /\ UNCHANGED <<env, action_status, email_interactions>>

\* Step 6, first half: the update is not wrapped by anything but the
\* handler's own try block, so an exception of it reaches the except clause.
send_ad_email_after_update(res) ==
    IF res = "raise"
    THEN [pc |-> "done", response |-> send_ad_email_except(STORE_ERROR)]
    ELSE [pc |-> "insert", response |-> NoResponse]

\* An update without its .eq('request_id', request_id) filter.
update_action_status_no_filter(status, request_id) ==
    [id \in DOMAIN status |-> AD_SENT_STATUS]

\* update({'action_status': 'Personalized Ad Sent'}).eq('request_id', request_id)
update_action_status(status, request_id) ==
    [id \in DOMAIN status |->
        IF id = request_id THEN AD_SENT_STATUS ELSE status[id]]

SendAdEmailUpdate(r) ==
    /\ req[r].kind = "send"
    /\ req[r].pc = "update"
    /\ \E res \in WriteResults :
         LET nxt == send_ad_email_after_update(res) IN
         /\ req' = [req EXCEPT ![r] =
                      [@ EXCEPT !.calls = Append(@, Call("update", AD_SENT_STATUS, res)),
                                !.pc = nxt.pc,
                                !.response = nxt.response]]
         /\ action_status' = IF res = "ok"
                             THEN update_action_status(action_status, req[r].id)
                             ELSE action_status
    /\ UNCHANGED <<env, email_interactions, outbox>>

\* log_email_interaction: the row it inserts (the timestamp column is left
\* out) and whether the call raises: its own try/except swallows everything.
InteractionRow(request_id, event_type) ==
    [request_id |-> request_id, event_type |-> event_type]

\* log_email_interaction without its try/except.
log_email_interaction_raises_unguarded(res) == res = "raise"

log_email_interaction_raises(res) == FALSE

\* An upsert in place of the insert: a row that is already there is kept.
insert_row_upsert(table, row) ==
    IF BagIn(row, table) THEN table ELSE table (+) SetToBag({row})

\* from_(EMAIL_INTERACTIONS_TABLE_NAME).insert(data).execute()
insert_row(table, row) == table (+) SetToBag({row})

\* Step 6, second half, and the return.
send_ad_email_after_log(res) ==
    IF log_email_interaction_raises(res)
    THEN send_ad_email_except(STORE_ERROR)
    ELSE send_ad_email_success

SendAdEmailLog(r) ==
    /\ req[r].kind = "send"
    /\ req[r].pc = "insert"
    /\ \E res \in WriteResults :
         /\ req' = [req EXCEPT ![r] =
                      [@ EXCEPT !.calls = Append(@, Call("insert", AD_EMAIL_SENT_EVENT, res)),
                                !.pc = "done",
                                !.response = send_ad_email_after_log(res)]]
         /\ email_interactions' =
              IF res = "ok"
              THEN insert_row(email_interactions,
                              InteractionRow(req[r].id, AD_EMAIL_SENT_EVENT))
              ELSE email_interactions
    /\ UNCHANGED <<env, action_status, outbox>>


\* ---------------------------------------------------------- generate_audio

\* A retry loop with one attempt too many.
TTS_ATTEMPTS_one_more == 3 + 1

\* range(3): the number of attempts of the retry loop.
TTS_ATTEMPTS == 3

\* A linear instead of an exponential backoff.
Backoff_linear(i) == i + 1

\* time.sleep(2 ** i)
Backoff(i) == 2 ^ i

\* The base64 payloads the TTS provider can return in inlineData.data.
AudioPayloads == {"UklGRiQA", "UklGRkAB"}

\* What one requests.post to the TTS endpoint can give: a 2xx JSON response
\* whose inlineData.data is a payload, the empty string or missing (None),
\* or a requests.exceptions.RequestException (a timeout, a connection
\* error, the HTTPError of raise_for_status, a body that is not JSON).
TtsOutcomes ==
    { [kind |-> "response", data |-> d] : d \in AudioPayloads \cup {"", None} }
    \cup
    { [kind |-> "RequestException", data |-> None] }

TtsResult(out) == IF out.kind = "response" THEN out.data ELSE out.kind

text_prompt(name, vehicle) ==
    LET vehicle_type == Get(AOE_VEHICLE_DATA, vehicle, [type |-> "vehicle"]).type
        message      == Get(AD_MESSAGES, vehicle_type, "your perfect vehicle.")
    IN "Say cheerfully: Hello " \o name \o ", we saw you were interested in the "
         \o vehicle \o ". " \o message
         \o ". Our team is ready for you to take a test drive. Please call us at (800) 555-0199 or reply to this email to schedule a new appointment."

\* One pass of the loop body "for i in range(3)", for attempt index i and
\* the outcome of its requests.post: whether generate_audio returns now,
\* what it returns, and the time.sleep calls of this pass.
generate_audio_attempt(i, out) ==
    IF out.kind # "response"
    THEN \* except requests.exceptions.RequestException: sleep, next pass;
         \* after the last pass the loop ends and the function returns None
         [returns |-> (i + 1 >= TTS_ATTEMPTS), audio |-> None,
          sleeps |-> << Backoff(i) >>]
    ELSE IF out.data = "" \/ out.data = None
    THEN \* raise ValueError(...) -> except Exception: return None
         [returns |-> TRUE, audio |-> None, sleeps |-> << >>]
    ELSE [returns |-> TRUE, audio |-> out.data, sleeps |-> << >>]

\* ---------------------------------------------- generate_landing_page_html

\* A renderer that builds the data URL whatever generate_audio returned.
generate_landing_page_html_always_url(lead_data, audio_data_base64) ==
    LET vehicle_data == Get(AOE_VEHICLE_DATA, lead_data.vehicle,
                            [type |-> "", features |-> << >>])
    IN [hello     |-> "Hello " \o lead_data.full_name \o ", "
                        \o Get(AD_MESSAGES, vehicle_data.type,
                               "your perfect " \o vehicle_data.type \o "."),
        images    |-> Get(AOE_VEHICLE_IMAGES, lead_data.vehicle, << >>),
        features  |-> vehicle_data.features,
        audio_src |-> "data:audio/wav;base64," \o audio_data_base64]

generate_landing_page_html(lead_data, audio_data_base64) ==
    LET vehicle       == lead_data.vehicle
        vehicle_data  == Get(AOE_VEHICLE_DATA, vehicle, [type |-> "", features |-> << >>])
        vehicle_type  == vehicle_data.type
        ad_message    == Get(AD_MESSAGES, vehicle_type,
                             "your perfect " \o vehicle_type \o ".")
    IN [hello     |-> "Hello " \o lead_data.full_name \o ", " \o ad_message,
        images    |-> Get(AOE_VEHICLE_IMAGES, vehicle, << >>),
        features  |-> vehicle_data.features,
        audio_src |-> IF audio_data_base64 # None /\ audio_data_base64 # ""
                      THEN "data:audio/wav;base64," \o audio_data_base64
                      ELSE ""]

\* --------------------------------------------------------- ad_landing_page

AD_MISSING_ID == "<h1>Error: Missing lead ID.</h1>"

AD_NOT_FOUND == "<h1>Error: Lead not found.</h1>"

AD_INTERNAL_ERROR ==
    "<h1>Internal Server Error</h1><p>Failed to generate the personalized ad. Please try again later.</p>"

\* A handler without the check of the empty id.
ad_landing_page_start_no_check(id) ==
    [pc |-> "select", response |-> NoResponse]

\* "if not id: return HTMLResponse(..., status_code=400)"
ad_landing_page_start(id) ==
    IF id = ""
    THEN [pc |-> "done", response |-> Response(400, AD_MISSING_ID, NoDoc)]
    ELSE [pc |-> "select", response |-> NoResponse]

AdLandingPageStart(r, id) ==
    /\ CanStart(r)
    /\ LET nxt == ad_landing_page_start(id) IN
       req' = [req EXCEPT ![r] = [@ EXCEPT !.kind = "ad", !.id = id,
                                           !.pc = nxt.pc,
                                           !.response = nxt.response]]
    /\ UNCHANGED <<env, action_status, email_interactions, outbox>>

\* A landing page handler that takes a missing row for a found one.
ad_landing_page_after_select_no_check(res) ==
    IF res = "raise"
    THEN [pc |-> "done", response |-> Response(500, AD_INTERNAL_ERROR, NoDoc)]
    ELSE [pc |-> "tts", response |-> NoResponse]

\* Step 1: the select; "if not response.data: return HTMLResponse(404)";
\* an exception of the select lands in the handler's except clause.
ad_landing_page_after_select(res) ==
    IF res = "raise"
    THEN [pc |-> "done", response |-> Response(500, AD_INTERNAL_ERROR, NoDoc)]
    ELSE IF res = "none"
    THEN [pc |-> "done", response |-> Response(404, AD_NOT_FOUND, NoDoc)]
    ELSE [pc |-> "tts", response |-> NoResponse]

AdLandingPageSelect(r) ==
    /\ req[r].kind = "ad"
    /\ req[r].pc = "select"
    /\ \E res \in SelectResults(req[r].id) :
         LET nxt == ad_landing_page_after_select(res) IN
         req' = [req EXCEPT ![r] =
                    [@ EXCEPT !.calls = Append(@, Call("select", req[r].id, res)),
                              !.pc = nxt.pc,
                              !.response = nxt.response]]
    /\ UNCHANGED <<env, action_status, email_interactions, outbox>>

\* Step 2, one attempt of generate_audio; when generate_audio returns,
\* step 3 (the renderer) and the 200 response follow in the same step.
AdLandingPageTts(r) ==
    /\ req[r].kind = "ad"
    /\ req[r].pc = "tts"
    /\ \E out \in TtsOutcomes :
         LET lead == Bookings[req[r].id]
             a    == generate_audio_attempt(req[r].i, out)
             done == [op |-> "tts", arg |-> text_prompt(lead.full_name, lead.vehicle),
                      result |-> TtsResult(out)]
         IN
         req' = [req EXCEPT ![r] =
                    [@ EXCEPT !.calls = Append(@, done),
                              !.sleeps = @ \o a.sleeps,
                              !.i = @ + 1,
                              !.audio = IF a.returns THEN a.audio ELSE Pending,
                              !.pc = IF a.returns THEN "done" ELSE "tts",
                              !.response =
                                  IF a.returns
                                  THEN Response(200, "",
                                           generate_landing_page_html(lead, a.audio))
                                  ELSE NoResponse]]
    /\ UNCHANGED <<env, action_status, email_interactions, outbox>>

\* ------------------------------------------------------- the specification

Next ==
    \E r \in Requests :
        \/ \E id \in SendRequestIds : SendAdEmailStart(r, id)
        \/ SendAdEmailSelect(r)
        \/ SendAdEmailSmtp(r)
        \/ SendAdEmailUpdate(r)
        \/ SendAdEmailLog(r)
        \/ \E id \in AdRequestIds : AdLandingPageStart(r, id)
        \/ AdLandingPageSelect(r)
        \/ AdLandingPageTts(r)

Spec == Init /\ [][Next]_vars


\* ------------------------------------------------- reading a request's log

CallsOf(r, op) == SelectSeq(req[r].calls, LAMBDA c : c.op = op)

NumCalls(r, op) == Len(CallsOf(r, op))

\* A call of r to op that ended with result.
HasCall(r, op, result) ==
    \E k \in DOMAIN req[r].calls :
        req[r].calls[k].op = op /\ req[r].calls[k].result = result

RECURSIVE SumSeq(_)
SumSeq(q) == IF q = << >> THEN 0 ELSE Head(q) + SumSeq(Tail(q))

IsSend(r) == req[r].kind = "send"

IsAd(r) == req[r].kind = "ad"

Done(r) == req[r].pc = "done"

\* The record store resolved the lead of request r.
LeadResolved(r) == HasCall(r, "select", "data")

\* send_email_via_smtp returned True in request r.
MailAccepted(r) == HasCall(r, "send_email_via_smtp", "True")

\* send_email_via_smtp returned False in request r.
MailFailed(r) == HasCall(r, "send_email_via_smtp", "False")

\* Request r appended its InteractionEvent to the table.
EventRecorded(r) == HasCall(r, "insert", "ok")

\* ------------------------------------------------------------------ claims

\* C1: for a resolved lead whose mail the transport accepted, send_ad_email
\* returns Success (200) and issued exactly one status update to
\* 'Personalized Ad Sent' and exactly one event append with event_type
\* 'personalized_ad_email_sent'.
C1_AcceptedMailGivesSuccessOneUpdateOneEvent ==
    \A r \in Requests :
        (IsSend(r) /\ Done(r) /\ LeadResolved(r) /\ MailAccepted(r)) =>
            /\ req[r].response = send_ad_email_success
            /\ NumCalls(r, "update") = 1
            /\ \A k \in DOMAIN CallsOf(r, "update") :
                   CallsOf(r, "update")[k].arg = "Personalized Ad Sent"
            /\ NumCalls(r, "insert") = 1
            /\ \A k \in DOMAIN CallsOf(r, "insert") :
                   CallsOf(r, "insert")[k].arg = "personalized_ad_email_sent"

\* C2: for a resolved lead whose mail the transport did not accept,
\* send_ad_email answers 500 with the delivery failure, and the request
\* issued neither a status update nor an event append.
C2_FailedMailGives500NoUpdateNoEvent ==
    \A r \in Requests :
        (IsSend(r) /\ LeadResolved(r) /\ MailFailed(r)) =>
            /\ Done(r)
            /\ req[r].response.code = 500
            /\ req[r].response.detail =
                 "Internal server error: 500: Failed to send personalized ad email."
            /\ NumCalls(r, "update") = 0
            /\ NumCalls(r, "insert") = 0

\* C2: a send request to a fully configured transport whose send_message
\* raised has finished.
C2_Witness ==
    \E r \in Requests :
        /\ IsSend(r) /\ Done(r) /\ LeadResolved(r) /\ MailFailed(r)
        /\ HasCall(r, "send_message", "raise")

\* C3: when the record store returns no lead, send_ad_email answers 404.
C3_UnknownLeadGives404 ==
    \A r \in Requests :
        (IsSend(r) /\ Done(r) /\ HasCall(r, "select", "none")) =>
            req[r].response.code = 404

\* C4: when the mail was accepted and the status update then fails, the
\* outcome reported to the caller is still Success.
C4_UpdateFailureStillSuccess ==
    \A r \in Requests :
        (IsSend(r) /\ Done(r) /\ MailAccepted(r) /\ HasCall(r, "update", "raise")) =>
            req[r].response = send_ad_email_success

\* C5: when the mail was accepted, the status update succeeded and the
\* event insert fails, the outcome reported to the caller is still Success.
C5_InsertFailureStillSuccess ==
    \A r \in Requests :
        (IsSend(r) /\ Done(r) /\ MailAccepted(r)
           /\ HasCall(r, "update", "ok") /\ HasCall(r, "insert", "raise")) =>
            /\ req[r].response.code = 200
            /\ req[r].response = send_ad_email_success

\* C5: a send request whose mail was accepted, whose update succeeded and
\* whose insert raised has finished.
C5_Witness ==
    \E r \in Requests :
        /\ IsSend(r) /\ Done(r) /\ MailAccepted(r)
        /\ HasCall(r, "update", "ok") /\ HasCall(r, "insert", "raise")


\* C6 (as stated): once a send request has finished, its InteractionEvent is
\* recorded if and only if the mail transport accepted its message, also
\* when the event insert itself fails.  Stated for the requests whose
\* status update did not fail, so that what refutes it is the insert.
C6_EventIffMailAccepted ==
    \A r \in Requests :
        (IsSend(r) /\ Done(r) /\ ~HasCall(r, "update", "raise")) =>
            (EventRecorded(r) <=> MailAccepted(r))

\* The rows of email_interactions for one request_id, and the messages the
\* transport accepted for it.
EventsFor(id) ==
    CopiesIn(InteractionRow(id, AD_EMAIL_SENT_EVENT), email_interactions)

MailsFor(id) == IF id \in LeadIds THEN CopiesIn(AdEmail(id), outbox) ELSE 0

\* C6 (amended): no event without an accepted mail: the events recorded
\* for an identifier never outnumber the mails accepted for it, the table
\* holds exactly the events of the requests whose insert succeeded, and
\* a finished request has recorded its event exactly when its mail was
\* accepted and its status update and its insert both succeeded.
C6_EventOnlyIfMailAccepted ==
    /\ \A id \in SendRequestIds :
          /\ EventsFor(id) <= MailsFor(id)
          /\ EventsFor(id) =
               Cardinality({r \in Requests : req[r].id = id /\ EventRecorded(r)})
    /\ BagToSet(email_interactions) \subseteq
          {InteractionRow(id, AD_EMAIL_SENT_EVENT) : id \in LeadIds}
    /\ \A r \in Requests :
          /\ EventRecorded(r) => (IsSend(r) /\ MailAccepted(r))
          /\ (IsSend(r) /\ Done(r)) =>
               (EventRecorded(r) <=>
                  (MailAccepted(r) /\ HasCall(r, "update", "ok")
                     /\ ~HasCall(r, "insert", "raise")))

\* C6: one request recorded its event after an accepted mail, another one
\* for the same lead had its mail accepted and its insert failed.
C6_Witness ==
    \E r, q \in Requests :
        /\ r # q /\ req[r].id = req[q].id
        /\ Done(r) /\ MailAccepted(r) /\ EventRecorded(r)
        /\ Done(q) /\ MailAccepted(q) /\ HasCall(q, "insert", "raise")
        /\ EventsFor(req[r].id) = 1 /\ MailsFor(req[r].id) = 2

\* The outcome of the last TTS call of request r.
LastTts(r) == CallsOf(r, "tts")[NumCalls(r, "tts")].result

\* C7: generate_audio calls the TTS provider at most 3 times, a pending
\* invocation always has an attempt left (so it ends after at most 3
\* calls), it ends with a payload or None, and a call that returned a
\* payload is the last call and its payload is what is returned.
C7_AtMostThreeCallsThenAudioOrAbsent ==
    \A r \in Requests :
        IsAd(r) =>
            /\ NumCalls(r, "tts") <= 3
            /\ req[r].pc = "tts" => (NumCalls(r, "tts") < 3 /\ req[r].audio = Pending)
            /\ (Done(r) /\ NumCalls(r, "tts") > 0) =>
                   req[r].audio \in AudioPayloads \cup {None}
            /\ \A k \in DOMAIN CallsOf(r, "tts") :
                   CallsOf(r, "tts")[k].result \in AudioPayloads =>
                       /\ k = NumCalls(r, "tts")
                       /\ Done(r)
                       /\ req[r].audio = CallsOf(r, "tts")[k].result

\* C7: the first attempt failed in the transport, the second returned a
\* payload; the invocation ended with that payload after two calls.
C7_Witness ==
    \E r \in Requests :
        /\ IsAd(r) /\ Done(r) /\ NumCalls(r, "tts") = 2
        /\ CallsOf(r, "tts")[1].result = "RequestException"
        /\ CallsOf(r, "tts")[2].result = "UklGRkAB"
        /\ req[r].audio = "UklGRkAB"

\* Every TTS call of request r so far failed in the transport.
AllTransportFailures(r) ==
    \A k \in DOMAIN CallsOf(r, "tts") :
        CallsOf(r, "tts")[k].result = "RequestException"

\* C8: after three consecutive transport failures generate_audio has
\* waited 1, 2 and 4 time units (7 in total) and returns None without
\* raising: the handler goes on to the 200 document.
C8_ThreeFailuresBackoffSeven ==
    \A r \in Requests :
        (IsAd(r) /\ AllTransportFailures(r)) =>
            /\ req[r].sleeps = [k \in 1..NumCalls(r, "tts") |-> 2 ^ (k - 1)]
            /\ NumCalls(r, "tts") = 3 =>
                   /\ req[r].sleeps = << 1, 2, 4 >>
                   /\ SumSeq(req[r].sleeps) = 7
                   /\ Done(r)
                   /\ req[r].audio = None
                   /\ req[r].response.code = 200

\* C8: a landing page request whose three TTS calls all failed has finished.
C8_Witness ==
    \E r \in Requests :
        /\ IsAd(r) /\ Done(r) /\ NumCalls(r, "tts") = 3
        /\ AllTransportFailures(r)
        /\ SumSeq(req[r].sleeps) = 7

\* C9: a TTS response with an empty or missing payload is followed, while
\* attempts remain, by the backoff wait and a further attempt.
C9_EmptyPayloadIsRetried ==
    \A r \in Requests :
        (IsAd(r) /\ NumCalls(r, "tts") > 0 /\ NumCalls(r, "tts") < 3
           /\ LastTts(r) \in {"", None}) =>
            /\ req[r].pc = "tts"
            /\ Len(req[r].sleeps) = NumCalls(r, "tts")

\* C10: when the record store returns no lead, ad_landing_page answers 404
\* at once: no TTS call, no generate_audio result, no rendered document.
C10_UnknownLeadGives404WithoutSynthesis ==
    \A r \in Requests :
        (IsAd(r) /\ HasCall(r, "select", "none")) =>
            /\ Done(r)
            /\ req[r].response.code = 404
            /\ req[r].response.detail = "<h1>Error: Lead not found.</h1>"
            /\ NumCalls(r, "tts") = 0
            /\ req[r].audio = Pending
            /\ req[r].sleeps = << >>
            /\ req[r].response.doc = NoDoc

\* C10: a landing page request for an unknown identifier has finished.
C10_Witness ==
    \E r \in Requests :
        /\ IsAd(r) /\ Done(r) /\ req[r].id = "R404"
        /\ HasCall(r, "select", "none")


\* C11: for a resolved lead, a failing synthesizer is absorbed: the landing
\* page request never answers anything but 200, and when generate_audio
\* returned None the document is rendered with an empty audio source (with
\* a payload, the source is its data URL).
C11_SynthesizerFailureAbsorbed ==
    \A r \in Requests :
        (IsAd(r) /\ LeadResolved(r)) =>
            /\ req[r].response.code \in {0, 200}
            /\ Done(r) =>
                 /\ req[r].response.code = 200
                 /\ req[r].response.doc.hello =
                      "Hello " \o Bookings[req[r].id].full_name \o ", "
                        \o "Drive the future. Electrify your journey with groundbreaking technology."
                 /\ req[r].audio = None => req[r].response.doc.audio_src = ""
                 /\ req[r].audio # None =>
                      req[r].response.doc.audio_src =
                          "data:audio/wav;base64," \o LastTts(r)

\* C11: a landing page for a resolved lead was rendered after the retries
\* were exhausted, with an empty audio source.
C11_Witness ==
    \E r \in Requests :
        /\ IsAd(r) /\ Done(r) /\ LeadResolved(r)
        /\ NumCalls(r, "tts") = 3 /\ AllTransportFailures(r)
        /\ req[r].audio = None
        /\ req[r].response.code = 200
        /\ req[r].response.doc.audio_src = ""

\* t occurs in s.
Contains(s, t) ==
    \E k \in 1..(Len(s) - Len(t) + 1) : SubSeq(s, k, k + Len(t) - 1) = t

\* A collaborator of request r raised an unexpected exception.
CollaboratorRaised(r) ==
    HasCall(r, "select", "raise") \/ HasCall(r, "update", "raise")

\* C12: an unexpected exception of a collaborator is reported as a 500
\* whose body carries no text of the exception.
C12_InternalFailureIsGeneric ==
    \A r \in Requests :
        (Done(r) /\ CollaboratorRaised(r)) =>
            /\ req[r].response.code = 500
            /\ ~Contains(req[r].response.detail, "APIError: record store unavailable")

\* The send requests for id whose message the SMTP server took.
Delivered(id) ==
    {r \in Requests : IsSend(r) /\ req[r].id = id /\ HasCall(r, "send_message", "ok")}

\* The send requests for id that appended their event.
Recorded(id) ==
    {r \in Requests : IsSend(r) /\ req[r].id = id /\ EventRecorded(r)}

\* C13: nothing deduplicates per lead: every send request that resolved
\* its lead goes to the mail transport whatever the lead's action_status
\* is, every message the server took is in the outbox and every event
\* appended is in the table, one per request.
C13_NoDeduplication ==
    /\ \A id \in LeadIds :
          /\ MailsFor(id) = Cardinality(Delivered(id))
          /\ EventsFor(id) = Cardinality(Recorded(id))
    /\ \A r \in Requests :
          (IsSend(r) /\ LeadResolved(r) /\ req[r].pc # "smtp") =>
              NumCalls(r, "send_email_via_smtp") = 1

\* C13: two send requests for the lead whose action_status was already
\* 'Personalized Ad Sent': two mails were accepted and two events appended.
C13_Witness ==
    \E r, q \in Requests :
        /\ r # q /\ req[r].id = "R2" /\ req[q].id = "R2"
        /\ InitialStatus["R2"] = "Personalized Ad Sent"
        /\ MailAccepted(r) /\ MailAccepted(q)
        /\ EventRecorded(r) /\ EventRecorded(q)
        /\ MailsFor("R2") = 2 /\ EventsFor("R2") = 2

\* C14: a lead whose action_status is 'Personalized Ad Sent' keeps it in
\* every step of every request.
C14_AdSentIsTerminal ==
    [][\A id \in LeadIds :
           action_status[id] = "Personalized Ad Sent" =>
               action_status'[id] = "Personalized Ad Sent"]_vars

\* C14: R1 was set to 'Personalized Ad Sent' by one request and another
\* send request for it has finished without a successful update.
C14_Witness ==
    \E r, q \in Requests :
        /\ r # q /\ req[r].id = "R1" /\ req[q].id = "R1"
        /\ IsSend(r) /\ HasCall(r, "update", "ok")
        /\ IsSend(q) /\ Done(q) /\ ~HasCall(q, "update", "ok")
        /\ action_status["R1"] = "Personalized Ad Sent"

\* C15: a send request invokes the mail transport at most once, exactly
\* once when the lead was found and never when it was not; after a failure
\* the request is over.
C15_MailTransportInvokedOnce ==
    \A r \in Requests :
        /\ NumCalls(r, "send_email_via_smtp") <= 1
        /\ NumCalls(r, "send_message") <= 1
        /\ NumCalls(r, "SMTP_SSL") + NumCalls(r, "SMTP") <= 1
        /\ (IsSend(r) /\ LeadResolved(r) /\ req[r].pc # "smtp") =>
               NumCalls(r, "send_email_via_smtp") = 1
        /\ ~(IsSend(r) /\ LeadResolved(r)) =>
               NumCalls(r, "send_email_via_smtp") = 0
        /\ MailFailed(r) => Done(r)

\* C15: a send request whose connection attempt failed has finished after
\* its single invocation of the transport.
C15_Witness ==
    \E r \in Requests :
        /\ IsSend(r) /\ Done(r) /\ LeadResolved(r) /\ MailFailed(r)
        /\ NumCalls(r, "send_email_via_smtp") = 1
        /\ (HasCall(r, "SMTP_SSL", "raise") \/ HasCall(r, "SMTP", "raise"))

\* The position of the only call of r to op (0 when there is none).
IndexOf(r, op) ==
    IF \E k \in DOMAIN req[r].calls : req[r].calls[k].op = op
    THEN CHOOSE k \in DOMAIN req[r].calls : req[r].calls[k].op = op
    ELSE 0

\* C16: in a request the status update comes after the accepted mail and
\* the event append after the successful update; so for a lead that did
\* not start as 'Personalized Ad Sent', an event implies that status,
\* which implies an accepted mail.
C16_MailThenUpdateThenEvent ==
    /\ \A r \in Requests :
          /\ NumCalls(r, "update") > 0 =>
                /\ MailAccepted(r)
                /\ IndexOf(r, "send_email_via_smtp") < IndexOf(r, "update")
                /\ IndexOf(r, "send_message") < IndexOf(r, "update")
          /\ NumCalls(r, "insert") > 0 =>
                /\ HasCall(r, "update", "ok")
                /\ IndexOf(r, "update") < IndexOf(r, "insert")
    /\ \A id \in LeadIds :
          InitialStatus[id] # "Personalized Ad Sent" =>
              /\ EventsFor(id) > 0 => action_status[id] = "Personalized Ad Sent"
              /\ action_status[id] = "Personalized Ad Sent" => MailsFor(id) >= 1

\* C16: R1, which started as a new lead, has an event, the status
\* 'Personalized Ad Sent' and an accepted mail.
C16_Witness ==
    /\ InitialStatus["R1"] # "Personalized Ad Sent"
    /\ EventsFor("R1") > 0
    /\ action_status["R1"] = "Personalized Ad Sent"
    /\ MailsFor("R1") >= 1

\* C17: every step of an ad_landing_page request leaves the outbox, the
\* action_status column and the email_interactions table as they were, and
\* makes only select and TTS calls; with an empty id the request answers
\* 400 at once, without any call.
C17_LandingPageChangesNothing ==
    [][\A r \in Requests :
           (req'[r].kind = "ad" /\ req'[r] # req[r]) =>
               /\ outbox' = outbox
               /\ action_status' = action_status
               /\ email_interactions' = email_interactions
               /\ \A k \in DOMAIN req'[r].calls :
                      req'[r].calls[k].op \in {"select", "tts"}
               /\ req'[r].pc = "done" => req'[r].response.code \in {200, 400, 404, 500}
               /\ req'[r].id = "" =>
                      /\ req'[r].pc = "done"
                      /\ req'[r].response.code = 400
                      /\ req'[r].calls = << >>]_vars

\* C17: one landing page request answered 400 for the empty id without a
\* call and another one answered 200; nothing outside them has changed.
C17_Witness ==
    \E r, q \in Requests :
        /\ IsAd(r) /\ Done(r) /\ req[r].id = "" /\ req[r].response.code = 400
        /\ req[r].calls = << >>
        /\ IsAd(q) /\ Done(q) /\ req[q].response.code = 200
        /\ outbox = EmptyBag /\ email_interactions = EmptyBag
        /\ action_status = InitialStatus

\* The smtplib calls of request r that raised.
SmtpRaised(r) ==
    \E op \in {"SMTP_SSL", "SMTP", "starttls", "login", "send_message", "quit"} :
        HasCall(r, op, "raise")

\* C18: send_email_via_smtp returns one Boolean, and a request that is
\* past it has that result: True only when the connection (implicit TLS on
\* 465, STARTTLS on 587), the login and the send all completed and nothing
\* raised; False without opening a connection when the configuration is
\* incomplete or the port is neither 465 nor 587; False when any smtplib
\* call raised.
C18_SmtpSuccessOnlyWhenAllCompleted ==
    \A r \in Requests :
        NumCalls(r, "send_email_via_smtp") > 0 =>
            /\ ~(MailAccepted(r) /\ MailFailed(r))
            /\ req[r].pc # "smtp" => (MailAccepted(r) \/ MailFailed(r))
            /\ MailAccepted(r) =>
                  /\ ~SmtpRaised(r)
                  /\ HasCall(r, "login", "ok")
                  /\ HasCall(r, "send_message", "ok")
                  /\ env.EMAIL_PORT = 465 => HasCall(r, "SMTP_SSL", "ok")
                  /\ env.EMAIL_PORT = 587 =>
                        (HasCall(r, "SMTP", "ok") /\ HasCall(r, "starttls", "ok"))
                  /\ env.EMAIL_PORT \in {465, 587}
            /\ (env.EMAIL_HOST = "" \/ env.EMAIL_PORT = 0 \/ env.EMAIL_ADDRESS = ""
                  \/ env.EMAIL_PASSWORD = "" \/ env.EMAIL_PORT \notin {465, 587}) =>
                  /\ MailFailed(r)
                  /\ NumCalls(r, "SMTP_SSL") + NumCalls(r, "SMTP") = 0
                  /\ NumCalls(r, "login") + NumCalls(r, "send_message") = 0
            /\ SmtpRaised(r) => ~MailAccepted(r)
            /\ (SmtpRaised(r) /\ req[r].pc # "smtp") => MailFailed(r)
            /\ (MailFailed(r) /\ Done(r)) =>
                  req[r].response.detail =
                      "Internal server error: 500: Failed to send personalized ad email."

\* C18: with the password unset, a send request got False from the
\* transport and no connection was opened.
C18_Witness ==
    \E r \in Requests :
        /\ env.EMAIL_PASSWORD = ""
        /\ IsSend(r) /\ Done(r) /\ MailFailed(r)
        /\ NumCalls(r, "SMTP_SSL") + NumCalls(r, "SMTP") = 0

====
